---- MODULE Spec2Model ----
(***************************************************************************)
(* R1CS constraint synthesis of the arkworks example circuits:             *)
(*   - CubicDemoCircuit    (x^3 + x + 5 = out)   cubic_demo.rs / marlin_demo.rs *)
(*   - MultiplyDemoCircuit (a * b = c, padded)   multiply_demo.rs / marlin_demo.rs *)
(*   - SolutionDemo / SolutionDemoGadget         cubic_gadget/{mod,constraints}.rs *)
(* The constraint system (ark-relations) and the field variables           *)
(* (ark-r1cs-std) are modelled by what the calls made in the sources do.   *)
(***************************************************************************)
EXTENDS Integers, Sequences, FiniteSets, TLC

(* ------------------------------ bounds -------------------------------- *)
\* The scalar field is a prime field; the model runs it over a small prime.
FieldIdx == 1
FieldPrimes == <<43, 47, 53, 59>>
\* Secret values of the product circuit and of the gadget's x: 0..MaxSample.
MaxSample == 7
\* Descriptor sizes num_variables / num_constraints range over 0..Max.
MaxNumVariables == 5
MaxNumConstraints == 3
\* Width of usize in the model, and the cap on iterations of one padding loop
\* (above MaxNumVariables - 3 and MaxNumConstraints - 1, so only a loop on a
\* wrapped bound is cut short).
UsizeBits == 16
MaxLoop == 4

(* ------------------------------ field --------------------------------- *)
P == FieldPrimes[FieldIdx]
F == 0..(P - 1)
Samples == 0..MaxSample

FromU(n) == n % P
add(u, v) == (u + v) % P
mul(u, v) == (u * v) % P
sub(u, v) == (u + P - v) % P
square(u) == mul(u, u)
inverse(u) == CHOOSE i \in F : mul(u, i) = 1

(* ------------------------- Option and Result -------------------------- *)
None == <<>>
Some(v) == <<v>>
unwrap(o) == o[1]
Ok(v) == [tag |-> "Ok", val |-> v]
Err(e) == [tag |-> "Err", err |-> e]
Panicked == [tag |-> "Panic"]
\* mutant of ok_or: an absent value is replaced by the default (zero)
ok_or_default(o) == IF o = None THEN Ok(0) ELSE Ok(unwrap(o))
\* Option::ok_or(SynthesisError::AssignmentMissing)
ok_or(o) == IF o = None THEN Err("AssignmentMissing") ELSE Ok(unwrap(o))
\* what a call that did not return Ok leaves as the outcome of the run
OutcomeOf(r) == IF r.tag = "Err" THEN r.err ELSE "Panic"

(* ------------------- variables, linear combinations ------------------- *)
One == [tag |-> "One", index |-> 0]
Instance(i) == [tag |-> "Instance", index |-> i]
Witness(i) == [tag |-> "Witness", index |-> i]
Unbound == [tag |-> "Unbound", index |-> 0]

\* lc!() + (coeff, var) + ... : a sequence of <<coeff, variable>> terms
lc(v) == << <<1, v>> >>
lcTerm(c, v) == << <<c, v>> >>

(* -------------------------- ConstraintSystem -------------------------- *)
\* ConstraintSystem::new(), in the given synthesis mode
NewCS(mode) ==
    [mode |-> mode,
     num_instance_variables |-> 1,
     num_witness_variables |-> 0,
     num_constraints |-> 0,
     instance_assignment |-> <<1>>,
     witness_assignment |-> <<>>,
     constraints |-> <<>>]

is_in_setup_mode(c) == c.mode = "Setup"

\* mutant of new_witness_variable: a failing f rolls the witnesses back
new_witness_variable_rollback(c, f) ==
    LET index == c.num_witness_variables
        c1 == [c EXCEPT !.num_witness_variables = @ + 1]
    IN  IF c.mode = "Setup" THEN [cs |-> c1, ret |-> Ok(Witness(index))]
        ELSE IF f.tag = "Ok"
             THEN [cs |-> [c1 EXCEPT !.witness_assignment = Append(@, f.val)],
                   ret |-> Ok(Witness(index))]
             ELSE [cs |-> [c EXCEPT !.witness_assignment = <<>>,
                                    !.num_witness_variables = 0],
                   ret |-> f]
\* cs.new_witness_variable(f): the index is taken first, f runs only when
\* proving, and its failure returns after the counter moved.
new_witness_variable(c, f) ==
    LET index == c.num_witness_variables
        c1 == [c EXCEPT !.num_witness_variables = @ + 1]
    IN  IF is_in_setup_mode(c) THEN [cs |-> c1, ret |-> Ok(Witness(index))]
        ELSE IF f.tag = "Ok"
             THEN [cs |-> [c1 EXCEPT !.witness_assignment = Append(@, f.val)],
                   ret |-> Ok(Witness(index))]
             ELSE [cs |-> c1, ret |-> f]

\* cs.new_input_variable(f)
new_input_variable(c, f) ==
    LET index == c.num_instance_variables
        c1 == [c EXCEPT !.num_instance_variables = @ + 1]
    IN  IF is_in_setup_mode(c) THEN [cs |-> c1, ret |-> Ok(Instance(index))]
        ELSE IF f.tag = "Ok"
             THEN [cs |-> [c1 EXCEPT !.instance_assignment = Append(@, f.val)],
                   ret |-> Ok(Instance(index))]
             ELSE [cs |-> c1, ret |-> f]

\* cs.enforce_constraint(a, b, c): appends the constraint
enforce_constraint(c, la, lb, lcc) ==
    [c EXCEPT !.constraints = Append(@, <<la, lb, lcc>>),
              !.num_constraints = @ + 1]

\* value of a variable / of a linear combination under given assignments
AssignedValue(v, inst, wit) ==
    CASE v.tag = "One" -> 1
      [] v.tag = "Instance" -> inst[v.index + 1]
      [] v.tag = "Witness" -> wit[v.index + 1]

RECURSIVE EvalLC(_, _, _)
EvalLC(l, inst, wit) ==
    IF l = <<>> THEN 0
    ELSE add(mul(Head(l)[1], AssignedValue(Head(l)[2], inst, wit)),
             EvalLC(Tail(l), inst, wit))

\* cs.is_satisfied() with the instance assignment replaced by inst
SatisfiedWith(c, inst) ==
    \A k \in 1..Len(c.constraints) :
        mul(EvalLC(c.constraints[k][1], inst, c.witness_assignment),
            EvalLC(c.constraints[k][2], inst, c.witness_assignment))
          = EvalLC(c.constraints[k][3], inst, c.witness_assignment)

is_satisfied(c) == SatisfiedWith(c, c.instance_assignment)

\* the verifier's view: the public input vector pub in place of the prover's
PublicInputs(pub) == <<1>> \o pub

VARIABLES circuit, self, cs, pc, local, outcome, allocated

vars == <<circuit, self, cs, pc, local, outcome, allocated>>

Modes == {"Setup", "Prove"}
OptionF == {None} \cup {Some(v) : v \in F}
OptionSample == {None} \cup {Some(v) : v \in Samples}

(* ---------------------- CubicDemoCircuit ------------------------------ *)
CubicLocals == [x |-> Unbound, tmp_1 |-> Unbound, x_cubed |-> Unbound, out |-> Unbound]

InitCubic ==
    /\ circuit = "cubic"
    /\ self \in [x : OptionF]
    /\ cs \in {NewCS(m) : m \in Modes}
    /\ pc = "alloc_x"
    /\ local = CubicLocals
    /\ outcome = "Running"
    /\ allocated = <<>>

\* let x_val = self.x
x_val == self.x
\* let tmp_1_val = x_val.map(|e| e.square())
tmp_1_val == IF x_val = None THEN None ELSE Some(square(unwrap(x_val)))
\* mutant of x_cubed_val: tmp_1 is squared instead of multiplied by x
x_cubed_val_squared == IF tmp_1_val = None THEN None
                       ELSE Some(mul(unwrap(tmp_1_val), unwrap(tmp_1_val)))
\* let x_cubed_val = tmp_1_val.map(|mut e| { e.mul_assign(&x_val.unwrap()); e })
x_cubed_val == IF tmp_1_val = None THEN None
               ELSE Some(mul(unwrap(tmp_1_val), unwrap(x_val)))
\* the closure of out: unwraps x_cubed_val and x_val, adds them and 5
out_val == IF x_cubed_val = None \/ x_val = None THEN Panicked
           ELSE Ok(add(add(unwrap(x_cubed_val), unwrap(x_val)), FromU(5)))

\* `let name = <allocation>?;` followed by the statement at next
Bind(r, name, next) ==
    /\ cs' = r.cs
    /\ IF r.ret.tag = "Ok"
       THEN /\ local' = [local EXCEPT ![name] = r.ret.val]
            /\ allocated' = Append(allocated, r.ret.val)
            /\ pc' = next
            /\ outcome' = outcome
       ELSE /\ pc' = "done"
            /\ outcome' = OutcomeOf(r.ret)
            /\ UNCHANGED <<local, allocated>>
    /\ UNCHANGED <<circuit, self>>

\* `cs.enforce_constraint(a, b, c)?;` followed by the statement at next
Enforce(la, lb, lcc, next) ==
    /\ cs' = enforce_constraint(cs, la, lb, lcc)
    /\ pc' = next
    /\ outcome' = (IF next = "done" THEN "Ok" ELSE outcome)
    /\ UNCHANGED <<circuit, self, local, allocated>>

CubicAllocX ==
    /\ circuit = "cubic" /\ pc = "alloc_x"
    /\ Bind(new_witness_variable(cs, ok_or(x_val)), "x", "alloc_tmp_1")

CubicAllocTmp1 ==
    /\ circuit = "cubic" /\ pc = "alloc_tmp_1"
    /\ Bind(new_witness_variable(cs, ok_or(tmp_1_val)), "tmp_1", "enforce_tmp_1")

CubicEnforceTmp1 ==
    /\ circuit = "cubic" /\ pc = "enforce_tmp_1"
    /\ Enforce(lc(local.x), lc(local.x), lc(local.tmp_1), "alloc_x_cubed")

CubicAllocXCubed ==
    /\ circuit = "cubic" /\ pc = "alloc_x_cubed"
    /\ Bind(new_witness_variable(cs, ok_or(x_cubed_val)), "x_cubed", "enforce_x_cubed")

\* mutant of CubicEnforceXCubed: the constraint tmp_1 * x = x_cubed is left out
CubicEnforceXCubedSkipped ==
    /\ circuit = "cubic" /\ pc = "enforce_x_cubed"
    /\ pc' = "alloc_out"
    /\ UNCHANGED <<circuit, self, cs, local, outcome, allocated>>

CubicEnforceXCubed ==
    /\ circuit = "cubic" /\ pc = "enforce_x_cubed"
    /\ Enforce(lc(local.tmp_1), lc(local.x), lc(local.x_cubed), "alloc_out")

\* mutant of CubicAllocOut: out is allocated as a witness
CubicAllocOutAsWitness ==
    /\ circuit = "cubic" /\ pc = "alloc_out"
    /\ Bind(new_witness_variable(cs, out_val), "out", "enforce_out")

CubicAllocOut ==
    /\ circuit = "cubic" /\ pc = "alloc_out"
    /\ Bind(new_input_variable(cs, out_val), "out", "enforce_out")

CubicEnforceOut ==
    /\ circuit = "cubic" /\ pc = "enforce_out"
    /\ Enforce(lc(local.x_cubed) \o lc(local.x) \o lcTerm(FromU(5), One),
               lc(One), lc(local.out), "done")

(* ---------------------- MultiplyDemoCircuit --------------------------- *)
MulLocals == [a |-> Unbound, b |-> Unbound, c |-> Unbound, i |-> 0, end |-> 0]

InitMul ==
    /\ circuit = "product"
    /\ self \in [a : OptionSample, b : OptionSample,
                 num_constraints : 0..MaxNumConstraints,
                 num_variables : 0..MaxNumVariables]
    /\ cs \in {NewCS(m) : m \in Modes}
    /\ pc = "alloc_a"
    /\ local = MulLocals
    /\ outcome = "Running"
    /\ allocated = <<>>

\* the closure of c: a and b by ok_or(AssignmentMissing)?, then a.mul_assign(&b)
c_val == IF self.a = None \/ self.b = None THEN Err("AssignmentMissing")
         ELSE Ok(mul(unwrap(self.a), unwrap(self.b)))

\* u - v on usize: with overflow checks a subtraction below zero panics,
\* without them it wraps modulo the word size
usize_sub(u, v, overflow_checks) ==
    IF u >= v THEN Ok(u - v)
    ELSE IF overflow_checks THEN Panicked
         ELSE Ok(u - v + 2 ^ UsizeBits)

MulAllocA ==
    /\ circuit = "product" /\ pc = "alloc_a"
    /\ Bind(new_witness_variable(cs, ok_or(self.a)), "a", "alloc_b")

MulAllocB ==
    /\ circuit = "product" /\ pc = "alloc_b"
    /\ Bind(new_witness_variable(cs, ok_or(self.b)), "b", "alloc_c")

MulAllocC ==
    /\ circuit = "product" /\ pc = "alloc_c"
    /\ Bind(new_input_variable(cs, c_val), "c", "range_variables")

\* entry of `for _ in 0..(upper - lower)`: the range is computed once
EnterRange(upper, lower, body) ==
    \E overflow_checks \in BOOLEAN :
        LET r == usize_sub(upper, lower, overflow_checks)
        IN  /\ IF r.tag = "Ok"
               THEN /\ local' = [local EXCEPT !.i = 0, !.end = r.val]
                    /\ pc' = body
                    /\ outcome' = outcome
               ELSE /\ pc' = "done"
                    /\ outcome' = OutcomeOf(r)
                    /\ local' = local
            /\ UNCHANGED <<circuit, self, cs, allocated>>

\* for _ in 0..(self.num_variables - 3)
MulRangeVariables ==
    /\ circuit = "product" /\ pc = "range_variables"
    /\ EnterRange(self.num_variables, 3, "pad_variables")

\* let _ = cs.new_witness_variable(|| self.a.ok_or(AssignmentMissing))?;
MulPadVariable ==
    /\ circuit = "product" /\ pc = "pad_variables"
    /\ local.i < local.end /\ local.i < MaxLoop
    /\ LET r == new_witness_variable(cs, ok_or(self.a))
       IN  /\ cs' = r.cs
           /\ IF r.ret.tag = "Ok"
              THEN /\ local' = [local EXCEPT !.i = @ + 1]
                   /\ allocated' = Append(allocated, r.ret.val)
                   /\ UNCHANGED <<pc, outcome>>
              ELSE /\ pc' = "done"
                   /\ outcome' = OutcomeOf(r.ret)
                   /\ UNCHANGED <<local, allocated>>
    /\ UNCHANGED <<circuit, self>>

MulPadVariablesEnd ==
    /\ circuit = "product" /\ pc = "pad_variables"
    /\ local.i = local.end
    /\ pc' = "range_constraints"
    /\ UNCHANGED <<circuit, self, cs, local, outcome, allocated>>

\* for _ in 0..(self.num_constraints - 1)
MulRangeConstraints ==
    /\ circuit = "product" /\ pc = "range_constraints"
    /\ EnterRange(self.num_constraints, 1, "pad_constraints")

\* cs.enforce_constraint(lc!() + a, lc!() + b, lc!() + c)?;
MulPadConstraint ==
    /\ circuit = "product" /\ pc = "pad_constraints"
    /\ local.i < local.end /\ local.i < MaxLoop
    /\ cs' = enforce_constraint(cs, lc(local.a), lc(local.b), lc(local.c))
    /\ local' = [local EXCEPT !.i = @ + 1]
    /\ UNCHANGED <<circuit, self, pc, outcome, allocated>>

\* Ok(())
MulReturn ==
    /\ circuit = "product" /\ pc = "pad_constraints"
    /\ local.i = local.end
    /\ pc' = "done"
    /\ outcome' = "Ok"
    /\ UNCHANGED <<circuit, self, cs, local, allocated>>

(* --------------- field variables (FpVar) and Boolean ------------------ *)
AllocationModes == {"Constant", "Input", "Witness"}

FpConstant(v) == [kind |-> "Constant", lc |-> <<>>, value |-> Some(v)]
FpAllocated(l, value) == [kind |-> "Var", lc |-> l, value |-> value]

\* every coefficient of l times k
RECURSIVE Scale(_, _)
Scale(l, k) ==
    IF l = <<>> THEN <<>>
    ELSE << <<mul(Head(l)[1], k), Head(l)[2]>> >> \o Scale(Tail(l), k)

\* FpVar::new_variable(cs, f, mode), f given by its result: a constant takes
\* f's value; a variable takes it only when the constraint system runs f
FpNewVariable(c, f, mode) ==
    IF mode = "Constant"
    THEN [cs |-> c, ret |-> IF f.tag = "Ok" THEN Ok(FpConstant(f.val)) ELSE f]
    ELSE LET r == IF mode = "Input" THEN new_input_variable(c, f)
                  ELSE new_witness_variable(c, f)
             value == IF is_in_setup_mode(c) THEN None ELSE Some(f.val)
         IN  [cs |-> r.cs,
              ret |-> IF r.ret.tag = "Ok"
                      THEN Ok(FpAllocated(lc(r.ret.val), value)) ELSE r.ret]

\* FpVar * FpVar: two variables cost a witness and the constraint u * v = product
FpMul(c, u, v) ==
    CASE u.kind = "Constant" /\ v.kind = "Constant" ->
           [cs |-> c, ret |-> FpConstant(mul(unwrap(u.value), unwrap(v.value)))]
      [] u.kind = "Constant" /\ v.kind = "Var" ->
           [cs |-> c,
            ret |-> FpAllocated(Scale(v.lc, unwrap(u.value)),
                        IF v.value = None THEN None
                        ELSE Some(mul(unwrap(v.value), unwrap(u.value))))]
      [] u.kind = "Var" /\ v.kind = "Constant" ->
           [cs |-> c,
            ret |-> FpAllocated(Scale(u.lc, unwrap(v.value)),
                        IF u.value = None THEN None
                        ELSE Some(mul(unwrap(u.value), unwrap(v.value))))]
      [] u.kind = "Var" /\ v.kind = "Var" ->
           LET f == IF u.value = None \/ v.value = None
                    THEN Err("AssignmentMissing")
                    ELSE Ok(mul(unwrap(u.value), unwrap(v.value)))
               r == new_witness_variable(c, f)
               product == FpAllocated(lc(r.ret.val),
                              IF is_in_setup_mode(c) THEN None ELSE Some(f.val))
           IN  [cs |-> enforce_constraint(r.cs, u.lc, v.lc, product.lc),
                ret |-> product]

\* FpVar + FpVar: a linear combination, no constraint
FpAdd(u, v) ==
    CASE u.kind = "Constant" /\ v.kind = "Constant" ->
           FpConstant(add(unwrap(u.value), unwrap(v.value)))
      [] u.kind = "Constant" /\ v.kind = "Var" ->
           FpAllocated(v.lc \o lcTerm(unwrap(u.value), One),
               IF v.value = None THEN None
               ELSE Some(add(unwrap(v.value), unwrap(u.value))))
      [] u.kind = "Var" /\ v.kind = "Constant" ->
           FpAllocated(u.lc \o lcTerm(unwrap(v.value), One),
               IF u.value = None THEN None
               ELSE Some(add(unwrap(u.value), unwrap(v.value))))
      [] u.kind = "Var" /\ v.kind = "Var" ->
           FpAllocated(u.lc \o v.lc,
               IF u.value = None \/ v.value = None THEN None
               ELSE Some(add(unwrap(u.value), unwrap(v.value))))

BoolConstant(b) == [kind |-> "Constant", variable |-> One, constant |-> b]
BoolNot(v) == [kind |-> "Not", variable |-> v, constant |-> FALSE]

\* Boolean::value(): the assigned value, missing in setup mode
BooleanValue(c, b) ==
    IF b.kind = "Constant" THEN Some(b.constant)
    ELSE IF is_in_setup_mode(c) THEN None
    ELSE LET assigned == AssignedValue(b.variable, c.instance_assignment,
                                       c.witness_assignment)
         IN  Some(IF b.kind = "Not" THEN assigned = 0 ELSE assigned = 1)

\* mutant of AllocatedIsEq: the multiplier is always one
AllocatedIsEqUnitMultiplier(c, u, v) ==
    LET known == u.value /= None /\ v.value /= None
        differ == unwrap(u.value) /= unwrap(v.value)
        fb == IF known THEN Ok(IF differ THEN 1 ELSE 0)
              ELSE Err("AssignmentMissing")
        rb == new_witness_variable(c, fb)
        b == rb.ret.val
        c1 == enforce_constraint(rb.cs, lc(One) \o lcTerm(sub(0, 1), b), lc(b), <<>>)
        fm == IF ~known THEN Err("AssignmentMissing") ELSE Ok(1)
        rm == new_witness_variable(c1, fm)
        difference == u.lc \o Scale(v.lc, sub(0, 1))
        c2 == enforce_constraint(rm.cs, difference, lc(rm.ret.val), lc(b))
        c3 == enforce_constraint(c2, difference,
                                 lc(One) \o lcTerm(sub(0, 1), b), <<>>)
    IN  [cs |-> c3, ret |-> BoolNot(b)]

\* AllocatedFp::is_eq = is_neq(..).not(): a Boolean witness is_not_equal with
\* (1 - b) * b = 0, a witness multiplier, and the constraints
\* (u - v) * multiplier = b and (u - v) * (1 - b) = 0
AllocatedIsEq(c, u, v) ==
    LET known == u.value /= None /\ v.value /= None
        differ == unwrap(u.value) /= unwrap(v.value)
        fb == IF known THEN Ok(IF differ THEN 1 ELSE 0)
              ELSE Err("AssignmentMissing")
        rb == new_witness_variable(c, fb)
        b == rb.ret.val
        c1 == enforce_constraint(rb.cs, lc(One) \o lcTerm(sub(0, 1), b), lc(b), <<>>)
        fm == IF ~known THEN Err("AssignmentMissing")
              ELSE IF differ
                   THEN Ok(inverse(sub(unwrap(u.value), unwrap(v.value))))
                   ELSE Ok(1)
        rm == new_witness_variable(c1, fm)
        difference == u.lc \o Scale(v.lc, sub(0, 1))
        c2 == enforce_constraint(rm.cs, difference, lc(rm.ret.val), lc(b))
        c3 == enforce_constraint(c2, difference,
                                 lc(One) \o lcTerm(sub(0, 1), b), <<>>)
    IN  [cs |-> c3, ret |-> BoolNot(b)]

\* FpVar::is_eq: constants compare outright; a constant against a variable
\* is first lifted to a linear combination c * One
FpIsEq(c, u, v) ==
    CASE u.kind = "Constant" /\ v.kind = "Constant" ->
           [cs |-> c, ret |-> BoolConstant(unwrap(u.value) = unwrap(v.value))]
      [] u.kind = "Constant" /\ v.kind = "Var" ->
           AllocatedIsEq(c, FpAllocated(lcTerm(unwrap(u.value), One), u.value), v)
      [] u.kind = "Var" /\ v.kind = "Constant" ->
           AllocatedIsEq(c, FpAllocated(lcTerm(unwrap(v.value), One), v.value), u)
      [] u.kind = "Var" /\ v.kind = "Var" ->
           AllocatedIsEq(c, u, v)

(* ------------------- SolutionDemo / SolutionDemoGadget ---------------- *)
\* SolutionDemo::verify: Ok((x * x * x + x + F::from(5u8)) == y.inner)
NativeVerify(x, y) == add(add(mul(mul(x, x), x), x), FromU(5)) = y

\* mutant of ParamTypeVarNew: f is handed on to FpVar::new_variable, which
\* allocates before (and in setup mode without) running it
ParamTypeVarNewLazy(c, f, mode) == FpNewVariable(c, f, mode)

\* ParamTypeVar::new_variable: f().and_then(|val| FpVar::new_variable(..))
ParamTypeVarNew(c, f, mode) ==
    IF f.tag = "Ok" THEN FpNewVariable(c, Ok(f.val), mode)
    ELSE [cs |-> c, ret |-> f]

\* mutant of GadgetVerify: the constant 5 is left out of eval
GadgetVerifyNoConstant(c, x, y) ==
    LET xx == FpMul(c, x, x)
        xxx == FpMul(xx.cs, xx.ret, x)
        eval == FpAdd(xxx.ret, x)
    IN  FpIsEq(xxx.cs, eval, y)

\* SolutionDemoGadget::verify: eval = x * x * x + x + 5; eval.is_eq(&y.inner)
GadgetVerify(c, x, y) ==
    LET xx == FpMul(c, x, x)
        xxx == FpMul(xx.cs, xx.ret, x)
        eval == FpAdd(FpAdd(xxx.ret, x), FpConstant(FromU(5)))
    IN  FpIsEq(xxx.cs, eval, y)

GadgetLocals == [x |-> Unbound, y |-> Unbound, ret |-> Unbound, native |-> None]

InitGadget ==
    /\ circuit = "gadget"
    /\ self \in [x : OptionSample, y : OptionF,
                 x_mode : AllocationModes, y_mode : AllocationModes]
    /\ cs \in {NewCS(m) : m \in Modes}
    /\ pc = "new_x"
    /\ local = GadgetLocals
    /\ outcome = "Running"
    /\ allocated = <<>>

\* let name = ParamTypeVar::new_variable(cs, f, mode)?;
GadgetBind(r, name, next) ==
    /\ cs' = r.cs
    /\ IF r.ret.tag = "Ok"
       THEN /\ local' = [local EXCEPT ![name] = r.ret.val]
            /\ pc' = next
            /\ outcome' = outcome
       ELSE /\ pc' = "done"
            /\ outcome' = OutcomeOf(r.ret)
            /\ local' = local
    /\ UNCHANGED <<circuit, self, allocated>>

GadgetNewX ==
    /\ circuit = "gadget" /\ pc = "new_x"
    /\ GadgetBind(ParamTypeVarNew(cs, ok_or(self.x), self.x_mode), "x", "new_y")

GadgetNewY ==
    /\ circuit = "gadget" /\ pc = "new_y"
    /\ GadgetBind(ParamTypeVarNew(cs, ok_or(self.y), self.y_mode), "y", "gadget_verify")

\* SolutionDemoGadget { x }.verify(&y)
GadgetVerifyStep ==
    /\ circuit = "gadget" /\ pc = "gadget_verify"
    /\ LET r == GadgetVerify(cs, local.x, local.y)
       IN  /\ cs' = r.cs
           /\ local' = [local EXCEPT !.ret = r.ret]
    /\ pc' = "native_verify"
    /\ UNCHANGED <<circuit, self, outcome, allocated>>

\* SolutionDemo { x }.verify(&y) on the same two values
NativeVerifyStep ==
    /\ circuit = "gadget" /\ pc = "native_verify"
    /\ local' = [local EXCEPT !.native = Some(NativeVerify(unwrap(self.x), unwrap(self.y)))]
    /\ pc' = "done"
    /\ outcome' = "Ok"
    /\ UNCHANGED <<circuit, self, cs, allocated>>

Init == InitCubic \/ InitMul \/ InitGadget

Next ==
    \/ CubicAllocX
    \/ CubicAllocTmp1
    \/ CubicEnforceTmp1
    \/ CubicAllocXCubed
    \/ CubicEnforceXCubed
    \/ CubicAllocOut
    \/ CubicEnforceOut
    \/ MulAllocA
    \/ MulAllocB
    \/ MulAllocC
    \/ MulRangeVariables
    \/ MulPadVariable
    \/ MulPadVariablesEnd
    \/ MulRangeConstraints
    \/ MulPadConstraint
    \/ MulReturn
    \/ GadgetNewX
    \/ GadgetNewY
    \/ GadgetVerifyStep
    \/ NativeVerifyStep

Spec == Init /\ [][Next]_vars

(* ============================ properties ============================== *)
IsPrefix(s, t) == Len(s) <= Len(t) /\ SubSeq(t, 1, Len(s)) = s

\* x^3 + x + 5 in the field, from integer arithmetic
Cubic(v) == (v * v * v + v + 5) % P

GadgetDone == circuit = "gadget" /\ pc = "done" /\ outcome = "Ok"
CubicOk == circuit = "cubic" /\ pc = "done" /\ outcome = "Ok"
MulOk == circuit = "product" /\ pc = "done" /\ outcome = "Ok"

\* C1: native/circuit parity of the cubic relation. SolutionDemo::verify
\* answers true exactly when x^3 + x + 5 = y in the field, and whenever the
\* Boolean returned by SolutionDemoGadget::verify has a value (always when
\* proving), that value is the native answer.
NativeCircuitParity ==
    GadgetDone =>
        /\ local.native = Some(Cubic(unwrap(self.x)) = unwrap(self.y))
        /\ cs.mode = "Prove" => BooleanValue(cs, local.ret) /= None
        /\ BooleanValue(cs, local.ret) /= None
             => BooleanValue(cs, local.ret) = local.native

\* C1 witness: the test's case, x = 3 and y = 35 as witnesses, verified true
NativeCircuitParityWitness ==
    /\ GadgetDone /\ cs.mode = "Prove"
    /\ self.x = Some(3) /\ self.y = Some(35)
    /\ self.x_mode = "Witness" /\ self.y_mode = "Witness"
    /\ local.native = Some(TRUE)
    /\ BooleanValue(cs, local.ret) = Some(TRUE)

CubicRoundTrip ==
    (CubicOk /\ cs.mode = "Prove") =>
        LET v == unwrap(self.x)
        IN  /\ cs.witness_assignment = <<v, (v * v) % P, (v * v * v) % P>>
            /\ cs.instance_assignment = <<1, Cubic(v)>>
            /\ is_satisfied(cs)
            /\ \A y \in F : SatisfiedWith(cs, PublicInputs(<<y>>)) <=> y = Cubic(v)
            /\ v = 3 => /\ cs.witness_assignment = <<3, 9, 27>>
                        /\ cs.instance_assignment = <<1, 35>>
                        /\ SatisfiedWith(cs, PublicInputs(<<35>>))
                        /\ ~SatisfiedWith(cs, PublicInputs(<<30>>))

\* C3 witness: the proving run of x = 3 has returned Ok
CubicRoundTripWitness ==
    /\ CubicOk /\ cs.mode = "Prove" /\ self.x = Some(3)
    /\ cs.instance_assignment = <<1, 35>>

CubicOrder == <<Witness(0), Witness(1), Witness(2), Instance(1)>>

\* C4: allocation order of cubic flattening. In setup and in proving mode
\* the variables are allocated in the order x, t1, t2, out with roles
\* Witness, Witness, Witness, PublicInput, and a successful run ends with
\* exactly these four, out being the first and only public input.
CubicAllocationOrder ==
    circuit = "cubic" =>
        /\ IsPrefix(allocated, CubicOrder)
        /\ CubicOk =>
            /\ allocated = CubicOrder
            /\ local = [x |-> Witness(0), tmp_1 |-> Witness(1),
                        x_cubed |-> Witness(2), out |-> Instance(1)]
            /\ cs.num_witness_variables = 3
            /\ cs.num_instance_variables = 2

\* C4 witness: a setup run with x = None has allocated all four
CubicAllocationOrderWitness ==
    /\ CubicOk /\ cs.mode = "Setup" /\ self.x = None
    /\ allocated = CubicOrder

MulConstraint == <<lc(Witness(0)), lc(Witness(1)), lc(Instance(1))>>

\* C5: product round trip. For num_variables >= 3 and num_constraints >= 1 a
\* proving run assigns the public input c = a * b, the constraint system is
\* satisfied with it and with no other public input.
ProductRoundTrip ==
    (MulOk /\ cs.mode = "Prove"
        /\ self.num_variables >= 3 /\ self.num_constraints >= 1) =>
        LET ab == (unwrap(self.a) * unwrap(self.b)) % P
        IN  /\ cs.instance_assignment = <<1, ab>>
            /\ is_satisfied(cs)
            /\ \A y \in F : SatisfiedWith(cs, PublicInputs(<<y>>)) <=> y = ab

\* C6: padding validity. For num_variables = n >= 3 and num_constraints = m >= 1
\* a successful run makes exactly n allocations (a, b, c, then n - 3 padding
\* witnesses) and emits exactly m constraints, each of them a * b = c.
PaddingValidity ==
    (MulOk /\ self.num_variables >= 3 /\ self.num_constraints >= 1) =>
        /\ Len(allocated) = self.num_variables
        /\ allocated = <<Witness(0), Witness(1), Instance(1)>>
                         \o [j \in 1..(self.num_variables - 3) |-> Witness(j + 1)]
        /\ Len(cs.constraints) = self.num_constraints
        /\ \A k \in 1..Len(cs.constraints) : cs.constraints[k] = MulConstraint

\* the descriptor lacks a value that proving needs
CubicMissing == circuit = "cubic" /\ cs.mode = "Prove" /\ self.x = None
MulMissing == circuit = "product" /\ cs.mode = "Prove"
                 /\ (self.a = None \/ self.b = None)

\* C7: missing assignment. A proving run of the cubic circuit with x = None,
\* or of the product circuit with a = None or b = None, stops at the first
\* allocation whose value is absent and returns AssignmentMissing: it never
\* panics, never returns Ok and assigns no value in place of the absent one.
MissingAssignment ==
    /\ CubicMissing =>
        /\ outcome \in {"Running", "AssignmentMissing"}
        /\ pc \in {"alloc_x", "done"}
        /\ pc = "done" => outcome = "AssignmentMissing"
        /\ cs.witness_assignment = <<>> /\ cs.instance_assignment = <<1>>
    /\ MulMissing =>
        /\ outcome \in {"Running", "AssignmentMissing"}
        /\ pc \in (IF self.a = None THEN {"alloc_a", "done"}
                   ELSE {"alloc_a", "alloc_b", "done"})
        /\ pc = "done" => outcome = "AssignmentMissing"
        /\ cs.witness_assignment \in {<<>>, self.a}
        /\ cs.instance_assignment = <<1>>

\* C7 witness: the product circuit with a present and b absent has failed
MissingAssignmentWitness ==
    /\ MulMissing /\ self.a = Some(6) /\ self.b = None
    /\ pc = "done" /\ outcome = "AssignmentMissing"

\* a padding loop is running on a bound that wrapped below zero
WrappedLoop ==
    /\ circuit = "product" /\ pc \in {"pad_variables", "pad_constraints"}
    /\ local.end >= 2 ^ UsizeBits - 3

\* C8: invalid padding parameters. With num_variables < 3 or num_constraints < 1
\* product flattening ends by returning an error: it does not return Ok, does
\* not panic, and runs no padding loop on a wrapped bound.
InvalidPaddingFails ==
    (circuit = "product"
        /\ (self.num_variables < 3 \/ self.num_constraints < 1)) =>
        /\ outcome \notin {"Ok", "Panic"}
        /\ ~WrappedLoop

CubicConstraints ==
    << <<lc(Witness(0)), lc(Witness(0)), lc(Witness(1))>>,
       <<lc(Witness(1)), lc(Witness(0)), lc(Witness(2))>>,
       <<lc(Witness(2)) \o lc(Witness(0)) \o lcTerm(5, One), lc(One),
         lc(Instance(1))>> >>

\* the witnesses of the cubic circuit other than x
Intermediates == cs.num_witness_variables - 1

Flattening == circuit \in {"cubic", "product"}

\* one step of flattening keeps what the constraint system held
AppendOnly ==
    Flattening =>
        /\ IsPrefix(cs.witness_assignment, cs'.witness_assignment)
        /\ IsPrefix(cs.instance_assignment, cs'.instance_assignment)
        /\ IsPrefix(cs.constraints, cs'.constraints)
        /\ IsPrefix(allocated, allocated')
        /\ cs.num_witness_variables <= cs'.num_witness_variables
        /\ cs.num_instance_variables <= cs'.num_instance_variables
        /\ cs.num_constraints <= cs'.num_constraints
        \* a failure returns at once, and a returned run does nothing more
        /\ outcome' \notin {"Running", "Ok"} => pc' = "done"
        /\ pc = "done" => UNCHANGED <<cs, allocated, outcome, pc>>

\* C10: append-only synthesis without rollback. Every step of cubic and of
\* product flattening leaves the allocated variables and the emitted
\* constraints as prefixes of what follows, and a failure returns at once
\* with everything appended before it still in the constraint system.
AppendOnlyNoRollback == [][AppendOnly]_vars

\* C10 witness: product flattening failed at b with a's value still assigned
AppendOnlyNoRollbackWitness ==
    /\ circuit = "product" /\ cs.mode = "Prove"
    /\ self.a = Some(6) /\ self.b = None
    /\ pc = "done" /\ outcome = "AssignmentMissing"
    /\ cs.witness_assignment = <<6>> /\ allocated = <<Witness(0)>>

\* the call of ParamTypeVar::new_variable about to run: its binding, the
\* result of its value closure and its allocation mode
NewVariableCall ==
    IF pc = "new_x" THEN [name |-> "x", f |-> ok_or(self.x), mode |-> self.x_mode]
    ELSE [name |-> "y", f |-> ok_or(self.y), mode |-> self.y_mode]

AtNewVariable == circuit = "gadget" /\ pc \in {"new_x", "new_y"}

\* a failing closure: its error is returned and the constraint system is untouched
ClosureErrorReturned ==
    (AtNewVariable /\ NewVariableCall.f.tag = "Err") =>
        /\ cs' = cs
        /\ local' = local
        /\ pc' = "done"
        /\ outcome' = NewVariableCall.f.err

\* C11 as stated: under each allocation mode, in setup and in proving mode,
\* ParamTypeVar::new_variable returns the closure's error and leaves the
\* constraint system unchanged when the closure fails, and the allocated
\* variable carries exactly the closure's value when it succeeds.
NewVariableCarriesValue ==
    [][/\ ClosureErrorReturned
       /\ (AtNewVariable /\ NewVariableCall.f.tag = "Ok") =>
            local'[NewVariableCall.name].value = Some(NewVariableCall.f.val)]_vars

\* C11 amended: a failing closure is handled as stated in every mode; when
\* the closure succeeds, the allocated variable carries exactly the closure's
\* value if the mode is Constant or the constraint system is proving, and a
\* PublicInput or Witness variable allocated in setup mode carries no value.
NewVariableCarriesValueWhenProving ==
    [][/\ ClosureErrorReturned
       /\ (AtNewVariable /\ NewVariableCall.f.tag = "Ok") =>
            /\ local'[NewVariableCall.name].kind
                 = (IF NewVariableCall.mode = "Constant" THEN "Constant" ELSE "Var")
            /\ local'[NewVariableCall.name].value
                 = (IF NewVariableCall.mode = "Constant" \/ cs.mode = "Prove"
                    THEN Some(NewVariableCall.f.val) ELSE None)]_vars

\* C11 witness: proving, x was allocated as a witness holding 3, then the
\* closure of y failed and left the constraint system as x's allocation left it
NewVariableFailureWitness ==
    /\ circuit = "gadget" /\ cs.mode = "Prove"
    /\ self.x = Some(3) /\ self.x_mode = "Witness"
    /\ self.y = None /\ self.y_mode = "Witness"
    /\ pc = "done" /\ outcome = "AssignmentMissing"
    /\ local.x.value = Some(3) /\ local.y = Unbound
    /\ cs.num_witness_variables = 1 /\ cs.witness_assignment = <<3>>
====
